---- MODULE Spec2Model ----
(***************************************************************************)
(* Key / signature container records of rsign and their at-rest            *)
(* protection, in the two structural variants of the repository:           *)
(*   src/src/lib.rs    SeckeyStruct / PubkeyStruct / SigStruct (Vec based,  *)
(*                     usize cost fields, slice-indexing decoders)          *)
(*   src/src/types.rs  SecretKey / PublicKey / Signature (fixed arrays,     *)
(*                     read_exact decoders)                                 *)
(* A byte is a number in 0..255, a byte string a sequence of bytes.  A      *)
(* 64-bit usize is kept as four 16-bit limbs, least significant first, so   *)
(* that shifts by up to 56 bits stay inside the model checker's integers.   *)
(***************************************************************************)
EXTENDS Integers, Sequences, FiniteSets, TLC

VARIABLES rec, op, arg, ret, stream, nops

vars == <<rec, op, arg, ret, stream, nops>>

----------------------------------------------------------------------------
(* Bounds of the model *)

\* number of distinct byte patterns used for input buffers and random draws
NumSeeds == 2
\* number of distinct passwords (each gives one keystream)
NumPasswords == 2
\* input buffers are up to MaxSlack bytes shorter or longer than the record
MaxSlack == 2
\* number of checksum / xor calls in one run
MaxOps == 2

----------------------------------------------------------------------------
(* Program constants *)

KEYNUMBYTES == 8
TWOBYTES == 2
CHK_BYTES == 32
KDF_SALTBYTES == 32
PUBLICKEYBYTES == 32
SECRETKEYBYTES == 64
SIGNATUREBYTES == 64

\* b"Ed", b"Sc", b"B2" as bytes
SIGALG == <<69, 100>>
KDFALG == <<83, 99>>
CHKALG == <<66, 50>>

\* sodiumoxide's scrypt "sensitive" presets, 2^25 and 2^30, as usize limbs
OPSLIMIT_SENSITIVE == <<0, 512, 0, 0>>
MEMLIMIT_SENSITIVE == <<0, 16384, 0, 0>>

\* encoded sizes of the three records: 42, 158 and 74 bytes
PK_LEN == TWOBYTES + KEYNUMBYTES + PUBLICKEYBYTES
SK_LEN == TWOBYTES + TWOBYTES + TWOBYTES + KDF_SALTBYTES + KEYNUMBYTES + KEYNUMBYTES
            + KEYNUMBYTES + SECRETKEYBYTES + CHK_BYTES
SIG_LEN == TWOBYTES + KEYNUMBYTES + SIGNATUREBYTES
\* size of the payload keynum || sk || chk that the keystream covers
PAYLOAD_LEN == KEYNUMBYTES + SECRETKEYBYTES + CHK_BYTES

----------------------------------------------------------------------------
(* Bytes *)

Byte == 0..255

Min(a, b) == IF a <= b THEN a ELSE b

Zeros(n) == [i \in 1..n |-> 0]

\* s[n..] of Rust, for n <= Len(s)
Skip(s, n) == SubSeq(s, n + 1, Len(s))

\* s[a..b] of Rust, for a <= b <= Len(s)
Slice(s, a, b) == SubSeq(s, a + 1, b)

\* whether s[a..b] is in bounds (Rust panics otherwise)
SliceOk(s, a, b) == a <= b /\ b <= Len(s)

Bit(a, i) == (a \div (2 ^ i)) % 2

\* a ^ b on u8
XorTab == [a \in Byte |-> [b \in Byte |->
             ((Bit(a, 0) + Bit(b, 0)) % 2)
           + ((Bit(a, 1) + Bit(b, 1)) % 2) * 2
           + ((Bit(a, 2) + Bit(b, 2)) % 2) * 4
           + ((Bit(a, 3) + Bit(b, 3)) % 2) * 8
           + ((Bit(a, 4) + Bit(b, 4)) % 2) * 16
           + ((Bit(a, 5) + Bit(b, 5)) % 2) * 32
           + ((Bit(a, 6) + Bit(b, 6)) % 2) * 64
           + ((Bit(a, 7) + Bit(b, 7)) % 2) * 128]]

XorByte(a, b) == XorTab[a][b]

----------------------------------------------------------------------------
(* Inputs: buffers read from disk, random draws, keystreams *)

Seeds == 1..NumSeeds
Passwords == 1..NumPasswords

\* a buffer of len bytes; different seeds give different contents
Buf(seed, len) == [i \in 1..len |-> (i * (2 * seed + 1) + 37 * seed) % 256]

\* lengths of the buffers handed to a decoder of an n-byte record
BufLens(n) == {l \in 0..(n + MaxSlack) : l >= n - MaxSlack \/ l % 63 = 0}

\* the keystream the KDF derives from password p, len bytes long
Stream(p, len) == [i \in 1..len |-> (i * (2 * p + 5) + 101 * p + 3) % 256]

\* keystream lengths: the payload size 8 + 64 + 32, and two that end inside
\* keynum and inside chk
StreamLens == {5, 80, PAYLOAD_LEN}

----------------------------------------------------------------------------
(* Results of calls *)

Ok(v) == [kind |-> "Ok", val |-> v]
\* read_exact on a short cursor: io::ErrorKind::UnexpectedEof, returned by `?`
Err == [kind |-> "Err", val |-> "UnexpectedEof"]
\* slice index out of range
Panic == [kind |-> "Panic", val |-> "slice index out of range"]
Bytes(v) == [kind |-> "Bytes", val |-> v]
Unit == [kind |-> "Unit", val |-> "()"]
\* Result<()> of a call that cannot fail
OkUnit == [kind |-> "Unit", val |-> "Ok(())"]

\* no record is held
NoRec == [ty |-> "None"]

----------------------------------------------------------------------------
(* The hash primitive (crate::crypto::blake2b / generichash): a 32-byte     *)
(* digest of the bytes fed to it, in order.                                 *)

RECURSIVE SumBytes(_, _)
SumBytes(s, i) == IF i > Len(s) THEN 0 ELSE s[i] + SumBytes(s, i + 1)

RECURSIVE SumWeighted(_, _)
SumWeighted(s, i) == IF i > Len(s) THEN 0 ELSE i * s[i] + SumWeighted(s, i + 1)

Blake2b(input) ==
    LET s1 == SumBytes(input, 1)
        s2 == SumWeighted(input, 1)
    IN  [i \in 1..CHK_BYTES |-> (s1 * i + s2 + 7 * i + Len(input)) % 256]

----------------------------------------------------------------------------
(* src/src/lib.rs *)

\* ((x >> 8k) & 0xff) as u8, k in 0..7
ShrByte(x, k) == (x[(k \div 2) + 1] \div (IF k % 2 = 0 THEN 1 ELSE 256)) % 256

\* the bytes in the opposite order, most significant first
store_usize_be(x) == <<ShrByte(x, 7), ShrByte(x, 6), ShrByte(x, 5), ShrByte(x, 4),
                       ShrByte(x, 3), ShrByte(x, 2), ShrByte(x, 1), ShrByte(x, 0)>>

store_usize_le(x) == <<ShrByte(x, 0), ShrByte(x, 1), ShrByte(x, 2), ShrByte(x, 3),
                       ShrByte(x, 4), ShrByte(x, 5), ShrByte(x, 6), ShrByte(x, 7)>>

\* x[0] | x[1] << 8 | ... | x[7] << 56: the bytes do not overlap, so | adds
load_usize_le(x) == <<x[1] + x[2] * 256, x[3] + x[4] * 256,
                      x[5] + x[6] * 256, x[7] + x[8] * 256>>

SeckeyStruct_from(bytes_buf) ==
    IF  /\ SliceOk(bytes_buf, 0, 2)
        /\ SliceOk(bytes_buf, 2, 4)
        /\ SliceOk(bytes_buf, 4, 6)
        /\ SliceOk(bytes_buf, 6, 38)
        /\ SliceOk(bytes_buf, 38, 46)
        /\ SliceOk(bytes_buf, 46, 54)
        /\ SliceOk(bytes_buf, 54, 62)
        /\ SliceOk(bytes_buf, 62, 126)
        /\ 126 <= Len(bytes_buf)
    THEN Ok([ty |-> "SeckeyStruct",
             sig_alg |-> Slice(bytes_buf, 0, 2),
             kdf_alg |-> Slice(bytes_buf, 2, 4),
             chk_alg |-> Slice(bytes_buf, 4, 6),
             kdf_salt |-> Slice(bytes_buf, 6, 38),
             kdf_opslimit_le |-> load_usize_le(Slice(bytes_buf, 38, 46)),
             kdf_memlimit_le |-> load_usize_le(Slice(bytes_buf, 46, 54)),
             keynum_sk |-> [keynum |-> Slice(bytes_buf, 54, 62),
                            sk |-> Slice(bytes_buf, 62, 126),
                            chk |-> Skip(bytes_buf, 126)]])
    ELSE Panic

SeckeyStruct_bytes(self) ==
    self.sig_alg \o self.kdf_alg \o self.chk_alg \o self.kdf_salt
      \o store_usize_le(self.kdf_opslimit_le) \o store_usize_le(self.kdf_memlimit_le)
      \o self.keynum_sk.keynum \o self.keynum_sk.sk \o self.keynum_sk.chk

SeckeyStruct_checksum(self) ==
    LET h == Blake2b(self.sig_alg \o self.keynum_sk.keynum \o self.keynum_sk.sk)
    IN  [self EXCEPT !.keynum_sk.chk = h]

\* wrapping_add in place of ^: a transform that is not its own inverse
ZipAdd(field, s) ==
    [i \in 1..Len(field) |-> IF i <= Len(s) THEN (field[i] + s[i]) % 256 ELSE field[i]]

\* field.iter_mut().zip(s.iter()).map(|(b, s)| *b ^= *s): the bytes after the
\* shorter of the two are left alone
ZipXor(field, s) ==
    [i \in 1..Len(field) |-> IF i <= Len(s) THEN XorByte(field[i], s[i]) ELSE field[i]]

\* .count() of the zip
ZipCount(field, s) == Min(Len(field), Len(s))

\* the offsets b8 and b8 + b64 left out: every field is zipped with the
\* keystream from its first byte
SeckeyStruct_xor_keynum_no_offset(self, k) ==
    [self |-> [self EXCEPT
                 !.keynum_sk.keynum = ZipXor(@, k),
                 !.keynum_sk.sk = ZipXor(@, k),
                 !.keynum_sk.chk = ZipXor(@, k)],
     stream |-> Zeros(Len(k))]

\* the record and the keystream buffer when the call returns
SeckeyStruct_xor_keynum(self, k) ==
    LET b8 == ZipCount(self.keynum_sk.keynum, k)
        b64 == ZipCount(self.keynum_sk.sk, Skip(k, b8))
    IN  [self |-> [self EXCEPT
                     !.keynum_sk.keynum = ZipXor(@, k),
                     !.keynum_sk.sk = ZipXor(@, Skip(k, b8)),
                     !.keynum_sk.chk = ZipXor(@, Skip(k, b8 + b64))],
         stream |-> Zeros(Len(k))]

\* Cursor::read: copies what is left, up to n bytes, into a zeroed array
RECURSIVE ReadAll(_, _, _)
ReadAll(buf, pos, widths) ==
    IF widths = <<>> THEN <<>>
    ELSE LET n == Head(widths)
             m == Min(n, Len(buf) - pos)
         IN  <<SubSeq(buf, pos + 1, pos + m) \o Zeros(n - m)>>
               \o ReadAll(buf, pos + m, Tail(widths))

PubkeyStruct_from(buf) ==
    LET f == ReadAll(buf, 0, <<2, KEYNUMBYTES, PUBLICKEYBYTES>>)
    IN  Ok([ty |-> "PubkeyStruct",
            sig_alg |-> f[1],
            keynum_pk |-> [keynum |-> f[2], pk |-> f[3]]])

PubkeyStruct_bytes(self) ==
    self.sig_alg \o self.keynum_pk.keynum \o self.keynum_pk.pk

SigStruct_bytes(self) == self.sig_alg \o self.keynum \o self.sig

SigStruct_from(bytes_buf) ==
    IF  /\ SliceOk(bytes_buf, 0, 2)
        /\ SliceOk(bytes_buf, 2, 10)
        /\ SliceOk(bytes_buf, 10, 74)
    THEN Ok([ty |-> "SigStruct",
             sig_alg |-> Slice(bytes_buf, 0, 2),
             keynum |-> Slice(bytes_buf, 2, 10),
             sig |-> Slice(bytes_buf, 10, 74)])
    ELSE Panic

\* the public record keeps the zeroed keynum array: copy_from_slice left out
gen_keystruct_stale_keynum(pk, sk, keynum_vec, salt) ==
    [pk |-> [ty |-> "PubkeyStruct",
             sig_alg |-> SIGALG,
             keynum_pk |-> [keynum |-> Zeros(KEYNUMBYTES), pk |-> pk]],
     sk |-> [ty |-> "SeckeyStruct",
             sig_alg |-> SIGALG,
             kdf_alg |-> KDFALG,
             chk_alg |-> CHKALG,
             kdf_salt |-> salt,
             kdf_opslimit_le |-> OPSLIMIT_SENSITIVE,
             kdf_memlimit_le |-> MEMLIMIT_SENSITIVE,
             keynum_sk |-> [keynum |-> keynum_vec,
                            sk |-> sk,
                            chk |-> <<>>]]]

\* pk, sk: gen_keypair(); keynum_vec: randombytes(KEYNUMBYTES);
\* salt: randombytes(SALTBYTES)
gen_keystruct(pk, sk, keynum_vec, salt) ==
    [pk |-> [ty |-> "PubkeyStruct",
             sig_alg |-> SIGALG,
             keynum_pk |-> [keynum |-> keynum_vec, pk |-> pk]],
     sk |-> [ty |-> "SeckeyStruct",
             sig_alg |-> SIGALG,
             kdf_alg |-> KDFALG,
             chk_alg |-> CHKALG,
             kdf_salt |-> salt,
             kdf_opslimit_le |-> OPSLIMIT_SENSITIVE,
             kdf_memlimit_le |-> MEMLIMIT_SENSITIVE,
             keynum_sk |-> [keynum |-> keynum_vec,
                            sk |-> sk,
                            chk |-> <<>>]]]

----------------------------------------------------------------------------
(* src/src/types.rs *)

\* a run of read_exact calls on one cursor: the first one that finds fewer
\* bytes left than it needs fails
RECURSIVE ReadExactAll(_, _, _)
ReadExactAll(buf, pos, widths) ==
    IF widths = <<>> THEN [ok |-> TRUE, fields |-> <<>>]
    ELSE IF Len(buf) - pos < Head(widths) THEN [ok |-> FALSE, fields |-> <<>>]
    ELSE LET r == ReadExactAll(buf, pos + Head(widths), Tail(widths))
         IN  [ok |-> r.ok,
              fields |-> <<SubSeq(buf, pos + 1, pos + Head(widths))>> \o r.fields]

SecretKey_from_bytes(bytes_buf) ==
    LET r == ReadExactAll(bytes_buf, 0,
                 <<TWOBYTES, TWOBYTES, TWOBYTES, KDF_SALTBYTES, KEYNUMBYTES,
                   KEYNUMBYTES, KEYNUMBYTES, SECRETKEYBYTES, CHK_BYTES>>)
        f == r.fields
    IN  IF r.ok
        THEN Ok([ty |-> "SecretKey",
                 sig_alg |-> f[1],
                 kdf_alg |-> f[2],
                 chk_alg |-> f[3],
                 kdf_salt |-> f[4],
                 kdf_opslimit_le |-> f[5],
                 kdf_memlimit_le |-> f[6],
                 keynum_sk |-> [keynum |-> f[7], sk |-> f[8], chk |-> f[9]]])
        ELSE Err

SecretKey_to_bytes(self) ==
    self.sig_alg \o self.kdf_alg \o self.chk_alg \o self.kdf_salt
      \o self.kdf_opslimit_le \o self.kdf_memlimit_le
      \o self.keynum_sk.keynum \o self.keynum_sk.sk \o self.keynum_sk.chk

SecretKey_read_checksum(self) ==
    Blake2b(self.sig_alg \o self.keynum_sk.keynum \o self.keynum_sk.sk)

SecretKey_write_checksum(self) ==
    LET h == SecretKey_read_checksum(self)
    IN  [self EXCEPT !.keynum_sk.chk = h]

\* the transform starts one field early and runs over kdf_memlimit_le as well
SecretKey_xor_keynum_from_memlimit(self, k) ==
    LET b0 == ZipCount(self.kdf_memlimit_le, k)
        b8 == ZipCount(self.keynum_sk.keynum, Skip(k, b0))
        b64 == ZipCount(self.keynum_sk.sk, Skip(k, b0 + b8))
    IN  [self |-> [self EXCEPT
                     !.kdf_memlimit_le = ZipXor(@, k),
                     !.keynum_sk.keynum = ZipXor(@, Skip(k, b0)),
                     !.keynum_sk.sk = ZipXor(@, Skip(k, b0 + b8)),
                     !.keynum_sk.chk = ZipXor(@, Skip(k, b0 + b8 + b64))],
         stream |-> k]

\* the record and the caller's keystream buffer when the call returns
SecretKey_xor_keynum(self, k) ==
    LET b8 == ZipCount(self.keynum_sk.keynum, k)
        b64 == ZipCount(self.keynum_sk.sk, Skip(k, b8))
    IN  [self |-> [self EXCEPT
                     !.keynum_sk.keynum = ZipXor(@, k),
                     !.keynum_sk.sk = ZipXor(@, Skip(k, b8)),
                     !.keynum_sk.chk = ZipXor(@, Skip(k, b8 + b64))],
         stream |-> k]

PublicKey_from_bytes(buf) ==
    LET r == ReadExactAll(buf, 0, <<TWOBYTES, KEYNUMBYTES, PUBLICKEYBYTES>>)
        f == r.fields
    IN  IF r.ok
        THEN Ok([ty |-> "PublicKey",
                 sig_alg |-> f[1],
                 keynum_pk |-> [keynum |-> f[2], pk |-> f[3]]])
        ELSE Err

PublicKey_to_bytes(self) ==
    self.sig_alg \o self.keynum_pk.keynum \o self.keynum_pk.pk

Signature_to_bytes(self) == self.sig_alg \o self.keynum \o self.sig

Signature_from_bytes(bytes_buf) ==
    LET r == ReadExactAll(bytes_buf, 0, <<2, KEYNUMBYTES, SIGNATUREBYTES>>)
        f == r.fields
    IN  IF r.ok
        THEN Ok([ty |-> "Signature",
                 sig_alg |-> f[1],
                 keynum |-> f[2],
                 sig |-> f[3]])
        ELSE Err

----------------------------------------------------------------------------
(* State machine.  rec is the record the program holds: the one the last    *)
(* generation or decode produced, as the calls since have changed it        *)
(* (NoRec at the start and after a decode that failed).  op / arg / ret are *)
(* the last call, its input bytes and what it returned, stream is the       *)
(* keystream buffer as the last xor_keynum left it, nops the number of      *)
(* checksum and xor calls so far.                                           *)

Init ==
    /\ rec = NoRec
    /\ op = "start"
    /\ arg = <<>>
    /\ ret = Unit
    /\ stream = <<>>
    /\ nops = 0

\* the buffers a decoder of an n-byte record may be handed: a file of any
\* length, read while no record is held, or the bytes the last encode call
\* returned
Inputs(n) ==
    (IF rec = NoRec THEN {Buf(s, l) : s \in Seeds, l \in BufLens(n)} ELSE {})
      \cup (IF ret.kind = "Bytes" THEN {ret.val} ELSE {})

\* the records of type ty at hand: the held one, and the public half of a
\* pair that gen_keystruct just returned
Held(ty) ==
    {r \in {rec} : r.ty = ty}
      \cup (IF ret.kind = "Pair" THEN {r \in {ret.val.pk} : r.ty = ty} ELSE {})

\* a decoder returned r for the input b
Decoded(name, b, r) ==
    /\ rec' = IF r.kind = "Ok" THEN r.val ELSE NoRec
    /\ op' = name
    /\ arg' = b
    /\ ret' = r
    /\ UNCHANGED <<stream, nops>>

\* an encoder returned the bytes v
Encoded(name, v) ==
    /\ op' = name
    /\ arg' = <<>>
    /\ ret' = Bytes(v)
    /\ UNCHANGED <<rec, stream, nops>>

Call_gen_keystruct ==
    \E g \in Seeds :
        LET r == gen_keystruct(Buf(g, PUBLICKEYBYTES),
                               Buf(g + NumSeeds, SECRETKEYBYTES),
                               Buf(g + 2 * NumSeeds, KEYNUMBYTES),
                               Buf(g + 3 * NumSeeds, KDF_SALTBYTES))
        IN  /\ rec' = r.sk
            /\ op' = "gen_keystruct"
            /\ arg' = <<>>
            /\ ret' = [kind |-> "Pair", val |-> r]
            /\ UNCHANGED <<stream, nops>>

Call_SeckeyStruct_from ==
    \E b \in Inputs(SK_LEN) : Decoded("SeckeyStruct::from", b, SeckeyStruct_from(b))

Call_SeckeyStruct_bytes ==
    \E r \in Held("SeckeyStruct") :
        Encoded("SeckeyStruct::bytes", SeckeyStruct_bytes(r))

Call_SeckeyStruct_checksum ==
    /\ rec.ty = "SeckeyStruct"
    /\ nops < MaxOps
    /\ rec' = SeckeyStruct_checksum(rec)
    /\ op' = "SeckeyStruct::checksum"
    /\ arg' = <<>>
    /\ ret' = Unit
    /\ nops' = nops + 1
    /\ UNCHANGED stream

Call_SeckeyStruct_xor_keynum ==
    /\ rec.ty = "SeckeyStruct"
    /\ nops < MaxOps
    /\ \E p \in Passwords, l \in StreamLens :
          LET r == SeckeyStruct_xor_keynum(rec, Stream(p, l))
          IN  /\ rec' = r.self
              /\ stream' = r.stream
              /\ arg' = Stream(p, l)
    /\ op' = "SeckeyStruct::xor_keynum"
    /\ ret' = Unit
    /\ nops' = nops + 1

Call_PubkeyStruct_from ==
    \E b \in Inputs(PK_LEN) : Decoded("PubkeyStruct::from", b, PubkeyStruct_from(b))

Call_PubkeyStruct_bytes ==
    \E r \in Held("PubkeyStruct") :
        Encoded("PubkeyStruct::bytes", PubkeyStruct_bytes(r))

Call_SigStruct_from ==
    \E b \in Inputs(SIG_LEN) : Decoded("SigStruct::from", b, SigStruct_from(b))

Call_SigStruct_bytes ==
    \E r \in Held("SigStruct") :
        Encoded("SigStruct::bytes", SigStruct_bytes(r))

Call_SecretKey_from_bytes ==
    \E b \in Inputs(SK_LEN) :
        Decoded("SecretKey::from_bytes", b, SecretKey_from_bytes(b))

Call_SecretKey_to_bytes ==
    \E r \in Held("SecretKey") :
        Encoded("SecretKey::to_bytes", SecretKey_to_bytes(r))

Call_SecretKey_write_checksum ==
    /\ rec.ty = "SecretKey"
    /\ nops < MaxOps
    /\ rec' = SecretKey_write_checksum(rec)
    /\ op' = "SecretKey::write_checksum"
    /\ arg' = <<>>
    /\ ret' = OkUnit
    /\ nops' = nops + 1
    /\ UNCHANGED stream

Call_SecretKey_xor_keynum ==
    /\ rec.ty = "SecretKey"
    /\ nops < MaxOps
    /\ \E p \in Passwords, l \in StreamLens :
          LET r == SecretKey_xor_keynum(rec, Stream(p, l))
          IN  /\ rec' = r.self
              /\ stream' = r.stream
              /\ arg' = Stream(p, l)
    /\ op' = "SecretKey::xor_keynum"
    /\ ret' = Unit
    /\ nops' = nops + 1

Call_PublicKey_from_bytes ==
    \E b \in Inputs(PK_LEN) :
        Decoded("PublicKey::from_bytes", b, PublicKey_from_bytes(b))

Call_PublicKey_to_bytes ==
    \E r \in Held("PublicKey") :
        Encoded("PublicKey::to_bytes", PublicKey_to_bytes(r))

Call_Signature_from_bytes ==
    \E b \in Inputs(SIG_LEN) :
        Decoded("Signature::from_bytes", b, Signature_from_bytes(b))

Call_Signature_to_bytes ==
    \E r \in Held("Signature") :
        Encoded("Signature::to_bytes", Signature_to_bytes(r))

Next ==
    \/ Call_gen_keystruct
    \/ Call_SeckeyStruct_from
    \/ Call_SeckeyStruct_bytes
    \/ Call_SeckeyStruct_checksum
    \/ Call_SeckeyStruct_xor_keynum
    \/ Call_PubkeyStruct_from
    \/ Call_PubkeyStruct_bytes
    \/ Call_SigStruct_from
    \/ Call_SigStruct_bytes
    \/ Call_SecretKey_from_bytes
    \/ Call_SecretKey_to_bytes
    \/ Call_SecretKey_write_checksum
    \/ Call_SecretKey_xor_keynum
    \/ Call_PublicKey_from_bytes
    \/ Call_PublicKey_to_bytes
    \/ Call_Signature_from_bytes
    \/ Call_Signature_to_bytes

Spec == Init /\ [][Next]_vars

----------------------------------------------------------------------------
(* Properties *)

SecretOps == {"SeckeyStruct::from", "SecretKey::from_bytes"}
PublicOps == {"PubkeyStruct::from", "PublicKey::from_bytes"}
SigOps == {"SigStruct::from", "Signature::from_bytes"}
DecodeOps == SecretOps \cup PublicOps \cup SigOps
XorOps == {"SeckeyStruct::xor_keynum", "SecretKey::xor_keynum"}
ChecksumOps == {"SeckeyStruct::checksum", "SecretKey::write_checksum"}

\* the fixed size of the record a decoder produces
RecordLen(name) ==
    IF name \in SecretOps THEN SK_LEN
    ELSE IF name \in PublicOps THEN PK_LEN
    ELSE SIG_LEN

\* the field widths of a record, in layout order
Widths(name) ==
    IF name \in SecretOps
    THEN <<TWOBYTES, TWOBYTES, TWOBYTES, KDF_SALTBYTES, KEYNUMBYTES, KEYNUMBYTES,
           KEYNUMBYTES, SECRETKEYBYTES, CHK_BYTES>>
    ELSE IF name \in PublicOps THEN <<TWOBYTES, KEYNUMBYTES, PUBLICKEYBYTES>>
    ELSE <<TWOBYTES, KEYNUMBYTES, SIGNATUREBYTES>>

\* the fields of a record as byte strings, in layout order
Fields(r) ==
    IF r.ty = "SeckeyStruct"
    THEN <<r.sig_alg, r.kdf_alg, r.chk_alg, r.kdf_salt,
           store_usize_le(r.kdf_opslimit_le), store_usize_le(r.kdf_memlimit_le),
           r.keynum_sk.keynum, r.keynum_sk.sk, r.keynum_sk.chk>>
    ELSE IF r.ty = "SecretKey"
    THEN <<r.sig_alg, r.kdf_alg, r.chk_alg, r.kdf_salt,
           r.kdf_opslimit_le, r.kdf_memlimit_le,
           r.keynum_sk.keynum, r.keynum_sk.sk, r.keynum_sk.chk>>
    ELSE IF r.ty \in {"PubkeyStruct", "PublicKey"}
    THEN <<r.sig_alg, r.keynum_pk.keynum, r.keynum_pk.pk>>
    ELSE <<r.sig_alg, r.keynum, r.sig>>

\* the encoder and the decoder of a record's type
Encode(r) ==
    IF r.ty = "SeckeyStruct" THEN SeckeyStruct_bytes(r)
    ELSE IF r.ty = "SecretKey" THEN SecretKey_to_bytes(r)
    ELSE IF r.ty = "PubkeyStruct" THEN PubkeyStruct_bytes(r)
    ELSE IF r.ty = "PublicKey" THEN PublicKey_to_bytes(r)
    ELSE IF r.ty = "SigStruct" THEN SigStruct_bytes(r)
    ELSE Signature_to_bytes(r)

Decode(ty, b) ==
    IF ty = "SeckeyStruct" THEN SeckeyStruct_from(b)
    ELSE IF ty = "SecretKey" THEN SecretKey_from_bytes(b)
    ELSE IF ty = "PubkeyStruct" THEN PubkeyStruct_from(b)
    ELSE IF ty = "PublicKey" THEN PublicKey_from_bytes(b)
    ELSE IF ty = "SigStruct" THEN SigStruct_from(b)
    ELSE Signature_from_bytes(b)

\* every record at hand: the held one and a freshly generated public record
AllHeld ==
    {r \in {rec} : r.ty # "None"}
      \cup (IF ret.kind = "Pair" THEN {ret.val.pk} ELSE {})

\* sum of the first n entries of a sequence of widths
RECURSIVE Offset(_, _)
Offset(w, n) == IF n = 0 THEN 0 ELSE w[n] + Offset(w, n - 1)

\* the six header fields of a secret record
Header(r) == <<r.sig_alg, r.kdf_alg, r.chk_alg, r.kdf_salt,
               r.kdf_opslimit_le, r.kdf_memlimit_le>>

\* the XOR transform of the record's type, applied to r with keystream k
Apply(r, k) ==
    IF r.ty = "SeckeyStruct" THEN SeckeyStruct_xor_keynum(r, k).self
    ELSE SecretKey_xor_keynum(r, k).self

\* C1: decoding the bytes produced by encoding a record gives back a record
\* equal to it in every field, for each record type.
C1_RoundTrip ==
    \A r \in AllHeld : Decode(r.ty, Encode(r)) = Ok(r)

\* C1 witness: an encrypted secret record was written out and read back.
C1_Witness ==
    /\ op \in SecretOps
    /\ nops > 0
    /\ ret.kind = "Ok"
    /\ Len(arg) = SK_LEN
    /\ arg = Encode(rec)

\* C2: a decoder handed a buffer shorter than its record's size returns an
\* error value; it neither panics nor returns a record.
C2_ShortBufferIsError ==
    (op \in DecodeOps /\ Len(arg) < RecordLen(op)) => ret.kind = "Err"

\* C4: applying the XOR transform a second time with the same keystream of
\* the payload's length gives back the record as it was before the first.
C4_Involution ==
    [][(op' \in XorOps /\ Len(arg') = PAYLOAD_LEN) => Apply(rec', arg') = rec]_vars

\* C4 witness: two transforms with one full-length keystream have run and the
\* record is again the one that was decoded.
C4_Witness ==
    /\ op \in XorOps
    /\ nops = 2
    /\ Len(arg) = PAYLOAD_LEN
    /\ Len(rec.keynum_sk.chk) = CHK_BYTES
    /\ \E s \in Seeds : Encode(rec) = Buf(s, SK_LEN)

\* C5: the secret record that key generation returns carries the tags Ed, Sc,
\* B2 and a chk field equal to the checksum of its sig_alg, keynum and sk.
C5_GeneratedChecksumSet ==
    op = "gen_keystruct" =>
        /\ rec.sig_alg = SIGALG
        /\ rec.kdf_alg = KDFALG
        /\ rec.chk_alg = CHKALG
        /\ rec.keynum_sk.chk
             = Blake2b(rec.sig_alg \o rec.keynum_sk.keynum \o rec.keynum_sk.sk)

\* C6: the encoded form of every record at hand has the fixed length of its
\* type: 42, 158 or 74 bytes.
C6_FixedEncodedLength ==
    \A r \in AllHeld :
        Len(Encode(r)) = (IF r.ty \in {"SeckeyStruct", "SecretKey"} THEN SK_LEN
                          ELSE IF r.ty \in {"PubkeyStruct", "PublicKey"} THEN PK_LEN
                          ELSE SIG_LEN)

\* C7: when the XOR transform returns, every byte of the keystream buffer it
\* was given is zero.
C7_KeystreamZeroed ==
    op \in XorOps => stream = Zeros(Len(arg))

\* C8: key generation returns a public and a secret record with the same
\* 8-byte keynum and the same sig_alg tag Ed.
C8_SameKeynum ==
    op = "gen_keystruct" =>
        /\ Len(ret.val.pk.keynum_pk.keynum) = KEYNUMBYTES
        /\ ret.val.pk.keynum_pk.keynum = ret.val.sk.keynum_sk.keynum
        /\ ret.val.pk.sig_alg = SIGALG
        /\ ret.val.sk.sig_alg = SIGALG

\* C8 witness: a pair was generated and its secret half is the held record.
C8_Witness ==
    /\ op = "gen_keystruct"
    /\ rec = ret.val.sk
    /\ rec.keynum_sk.keynum # Zeros(KEYNUMBYTES)

\* C9: a decoder handed at least as many bytes as its record's size returns a
\* record whose fields are the consecutive slices of the first N bytes, each
\* of its fixed width.
C9_ExactFields ==
    (op \in DecodeOps /\ Len(arg) >= RecordLen(op)) =>
        /\ ret.kind = "Ok"
        /\ \A j \in 1..Len(Widths(op)) :
              Fields(ret.val)[j]
                = SubSeq(arg, Offset(Widths(op), j - 1) + 1, Offset(Widths(op), j))

\* C10: the checksum write and the XOR transform leave the six header
\* fields of the secret record as they were.
C10_HeaderUnchanged ==
    [][(op' \in XorOps \cup ChecksumOps) => Header(rec') = Header(rec)]_vars

\* C10 witness: a checksum write and a full-length transform have both run.
C10_Witness ==
    /\ op \in XorOps
    /\ nops = 2
    /\ Len(arg) = PAYLOAD_LEN
    /\ rec.keynum_sk.chk # Blake2b(rec.sig_alg \o rec.keynum_sk.keynum \o rec.keynum_sk.sk)
    /\ Apply(rec, arg).keynum_sk.chk
         = Blake2b(Apply(rec, arg).sig_alg \o Apply(rec, arg).keynum_sk.keynum
                     \o Apply(rec, arg).keynum_sk.sk)

\* the payload of a secret record: keynum || sk || chk
Payload(r) == r.keynum_sk.keynum \o r.keynum_sk.sk \o r.keynum_sk.chk

\* C11: xor_keynum with a keystream of any length L returns normally; byte i
\* of the keystream is applied to byte i of keynum || sk || chk for i <= L,
\* and the bytes after L, like the field lengths, stay as they were.
C11_ShortKeystream ==
    [][op' \in XorOps =>
          /\ ret' = Unit
          /\ rec'.ty = rec.ty
          /\ Len(rec'.keynum_sk.keynum) = Len(rec.keynum_sk.keynum)
          /\ Len(rec'.keynum_sk.sk) = Len(rec.keynum_sk.sk)
          /\ Len(rec'.keynum_sk.chk) = Len(rec.keynum_sk.chk)
          /\ Payload(rec')
               = [i \in 1..Len(Payload(rec)) |->
                    IF i <= Len(arg') THEN XorByte(Payload(rec)[i], arg'[i])
                    ELSE Payload(rec)[i]]]_vars

\* C11 witness: a keystream that ends inside chk was applied to a decoded
\* record: the payload bytes under it changed and the rest of chk did not.
C11_Witness ==
    /\ op \in XorOps
    /\ nops = 1
    /\ ret = Unit
    /\ Len(arg) > KEYNUMBYTES + SECRETKEYBYTES
    /\ Len(arg) < PAYLOAD_LEN
    /\ Len(rec.keynum_sk.chk) = CHK_BYTES
    /\ \E s \in Seeds :
          LET hdr == SK_LEN - PAYLOAD_LEN
              file == Buf(s, SK_LEN)
          IN  /\ SubSeq(Encode(rec), 1, hdr) = SubSeq(file, 1, hdr)
              /\ SubSeq(Encode(rec), hdr + Len(arg) + 1, SK_LEN)
                   = SubSeq(file, hdr + Len(arg) + 1, SK_LEN)
              /\ \A i \in 1..Len(arg) :
                    Encode(rec)[hdr + i] = XorByte(file[hdr + i], arg[i])
              /\ SubSeq(Encode(rec), hdr + 1, hdr + Len(arg))
                   # SubSeq(file, hdr + 1, hdr + Len(arg))

====
